---------------------------- MODULE Spec2Model ----------------------------
(***************************************************************************)
(* A model of the CSRF token analyzer (src/main.py): the command-line      *)
(* driver main, the directory traversal analyze_directory, the per-file    *)
(* analysis analyze_file and the two regular-expression predicates.        *)
(*                                                                         *)
(* Python strings are sequences of one-character strings, so that          *)
(* substring tests, suffix tests and regular-expression matching are       *)
(* computed character by character as the interpreter computes them.       *)
(***************************************************************************)
EXTENDS Integers, Sequences, FiniteSets, TLC

(***************************************************************************)
(* Character classes of the regular expressions in src/main.py.            *)
(***************************************************************************)
Letters ==
    {"a","b","c","d","e","f","g","h","i","j","k","l","m","n","o","p","q",
     "r","s","t","u","v","w","x","y","z",
     "A","B","C","D","E","F","G","H","I","J","K","L","M","N","O","P","Q",
     "R","S","T","U","V","W","X","Y","Z"}

Digits == {"0","1","2","3","4","5","6","7","8","9"}

\* [a-zA-Z_]
IdentStart == Letters \cup {"_"}

\* [a-zA-Z0-9_]
IdentChar == Letters \cup Digits \cup {"_"}

\* \s
Whitespace == {" ", "\n", "\t"}

\* ['\"]
Quote == {"'", "\""}

(***************************************************************************)
(* Regular expressions as trees, and Python's re matching on them.         *)
(* Matches(r, s, P) is the set of positions (0 .. Len(s)) at which a match *)
(* of r that starts at a position of P can end; backtracking explores      *)
(* exactly these ends, so re.search / re.match succeed iff the set for the *)
(* whole pattern is not empty.                                             *)
(***************************************************************************)
Lit(c) == <<"lit", c>>

Cls(S) == <<"cls", S>>

\* . : any character except a newline (no re.DOTALL)
Dot == <<"dot">>

Star(r) == <<"star", r>>

Opt(r) == <<"opt", r>>

Cat(rs) == <<"cat", rs>>

Alt(rs) == <<"alt", rs>>

\* ^ : start of the string (no re.MULTILINE)
Bol == <<"bol">>

\* $ : end of the string, or just before a newline that ends the string
Eol == <<"eol">>

Plus(r) == Cat(<<r, Star(r)>>)

\* a string taken literally, character by character
Str(s) == Cat([i \in 1..Len(s) |-> Lit(s[i])])

RECURSIVE Matches(_, _, _)
RECURSIVE CatMatches(_, _, _, _)
RECURSIVE StarMatches(_, _, _, _)

Matches(r, s, P) ==
    CASE r[1] = "lit"  -> {p + 1 : p \in {q \in P : q < Len(s) /\ s[q + 1] = r[2]}}
      [] r[1] = "cls"  -> {p + 1 : p \in {q \in P : q < Len(s) /\ s[q + 1] \in r[2]}}
      [] r[1] = "dot"  -> {p + 1 : p \in {q \in P : q < Len(s) /\ s[q + 1] # "\n"}}
      [] r[1] = "star" -> StarMatches(r[2], s, P, P)
      [] r[1] = "opt"  -> P \cup Matches(r[2], s, P)
      [] r[1] = "cat"  -> CatMatches(r[2], 1, s, P)
      [] r[1] = "alt"  -> UNION {Matches(r[2][i], s, P) : i \in DOMAIN r[2]}
      [] r[1] = "bol"  -> P \cap {0}
      [] r[1] = "eol"  -> {p \in P : \/ p = Len(s)
                                     \/ p = Len(s) - 1 /\ s[Len(s)] = "\n"}

CatMatches(rs, i, s, P) ==
    IF i > Len(rs) \/ P = {} THEN P
    ELSE CatMatches(rs, i + 1, s, Matches(rs[i], s, P))

StarMatches(r, s, acc, frontier) ==
    LET new == Matches(r, s, frontier) \ acc
    IN  IF new = {} THEN acc ELSE StarMatches(r, s, acc \cup new, new)

\* re.search(pattern, string) is not None
ReSearch(r, s) == Matches(r, s, 0..Len(s)) # {}

\* re.match(pattern, string) is not None
ReMatch(r, s) == Matches(r, s, {0}) # {}

(***************************************************************************)
(* The literal texts of the patterns and the default argument values.      *)
(***************************************************************************)
S_if == <<"i","f">>

S_request == <<"r","e","q","u","e","s","t">>

S_form == <<"f","o","r","m">>

S_POST == <<"P","O","S","T">>

S_get == <<"g","e","t">>

S_session == <<"s","e","s","s","i","o","n">>

S_ne == <<"!","=">>

S_generate == <<"g","e","n","e","r","a","t","e">>

S_token == <<"t","o","k","e","n">>

S_secrets_token_hex == <<"s","e","c","r","e","t","s",".","t","o","k","e","n","_","h","e","x">>

S_os_urandom == <<"o","s",".","u","r","a","n","d","o","m">>

S_uuid_uuid4 == <<"u","u","i","d",".","u","u","i","d","4">>

S_py == <<".","p","y">>

\* --token_name default
DefaultTokenName == <<"c","s","r","f","_","t","o","k","e","n">>

\* --form_field default
DefaultFormField == <<"c","s","r","f","_","t","o","k","e","n">>

\* \s*  and  \s+
Ws0 == Star(Cls(Whitespace))

Ws1 == Plus(Cls(Whitespace))

\* \(.*\)
CallArgs == Cat(<<Lit("("), Star(Dot), Lit(")")>>)

\* request\.(form|POST)
RequestObject == Cat(<<Str(S_request), Lit("."), Alt(<<Str(S_form), Str(S_POST)>>)>>)

(***************************************************************************)
(* The patterns of is_token_generation_present.  The names are put into    *)
(* the pattern text unescaped; main has checked them against the           *)
(* identifier pattern before, and every character that check lets through  *)
(* (letters, digits, underscores, a final newline) stands for itself in a  *)
(* pattern, so the interpolation is Str(token_name).                       *)
(***************************************************************************)
GenerationPatterns(token_name) ==
    << Cat(<<Str(token_name), Ws0, Lit("="), Ws0,
             Opt(Cat(<<Plus(Cls(IdentChar)), Lit(".")>>)),
             Str(S_generate), Star(Cls({"_"})), Str(S_token), Ws0, CallArgs>>),
       Cat(<<Str(token_name), Ws0, Lit("="), Ws0, Str(S_secrets_token_hex), Ws0, CallArgs>>),
       Cat(<<Str(token_name), Ws0, Lit("="), Ws0, Str(S_os_urandom), Ws0, CallArgs>>),
       Cat(<<Str(token_name), Ws0, Lit("="), Ws0, Str(S_uuid_uuid4), Ws0, CallArgs>>) >>

\* a variant of the generation predicate: re.match in place of re.search
is_token_generation_present_match(code, token_name) ==
    LET patterns == GenerationPatterns(token_name)
    IN  \E i \in DOMAIN patterns : ReMatch(patterns[i], code)

is_token_generation_present(code, token_name) ==
    LET patterns == GenerationPatterns(token_name)
    IN  \E i \in DOMAIN patterns : ReSearch(patterns[i], code)

(***************************************************************************)
(* The patterns of is_token_validation_present, as written in the source:  *)
(* the two .get patterns open with \( and close with \] .                  *)
(***************************************************************************)
ValidationPatterns(token_name, form_field) ==
    << Cat(<<Str(S_if), Ws1, RequestObject, Ws0,
             Lit("["), Cls(Quote), Str(form_field), Cls(Quote), Lit("]"),
             Star(Dot), Str(S_ne), Ws0, Str(token_name), Star(Dot)>>),
       Cat(<<Str(S_if), Ws1, RequestObject, Lit("."), Str(S_get), Ws0,
             Lit("("), Cls(Quote), Str(form_field), Cls(Quote), Lit("]"),
             Star(Dot), Str(S_ne), Ws0, Str(token_name), Star(Dot)>>),
       Cat(<<Str(S_if), Ws1, Str(S_session), Ws0,
             Lit("["), Cls(Quote), Str(token_name), Cls(Quote), Lit("]"),
             Star(Dot), Str(S_ne), Ws0, RequestObject, Ws0,
             Lit("["), Cls(Quote), Str(form_field), Cls(Quote), Lit("]"), Star(Dot)>>),
       Cat(<<Str(S_if), Ws1, Str(S_session), Ws0,
             Lit("["), Cls(Quote), Str(token_name), Cls(Quote), Lit("]"),
             Star(Dot), Str(S_ne), Ws0, RequestObject, Lit("."), Str(S_get), Ws0,
             Lit("("), Cls(Quote), Str(form_field), Cls(Quote), Lit("]"), Star(Dot)>>) >>

is_token_validation_present(code, token_name, form_field) ==
    LET patterns == ValidationPatterns(token_name, form_field)
    IN  \E i \in DOMAIN patterns : ReSearch(patterns[i], code)

\* ^[a-zA-Z_][a-zA-Z0-9_]*$
NamePattern == Cat(<<Bol, Cls(IdentStart), Star(Cls(IdentChar)), Eol>>)

\* the check of main on --token_name and --form_field
NamesAccepted(token_name, form_field) ==
    ReMatch(NamePattern, token_name) /\ ReMatch(NamePattern, form_field)

(***************************************************************************)
(* Paths: str.endswith, the substring test  a in b,  os.path.join and      *)
(* os.path.normpath (POSIX).                                               *)
(***************************************************************************)
EndsWith(s, suffix) ==
    /\ Len(suffix) <= Len(s)
    /\ SubSeq(s, Len(s) - Len(suffix) + 1, Len(s)) = suffix

StartsWith(s, prefix) ==
    /\ Len(prefix) <= Len(s)
    /\ SubSeq(s, 1, Len(prefix)) = prefix

\* sub in s
Contains(sub, s) ==
    \E i \in 0..(Len(s) - Len(sub)) : SubSeq(s, i + 1, i + Len(sub)) = sub

OsPathJoin(a, b) ==
    IF StartsWith(b, <<"/">>) THEN b
    ELSE IF a = <<>> \/ EndsWith(a, <<"/">>) THEN a \o b
    ELSE a \o <<"/">> \o b

\* path.split('/') : the components between the slashes, empty ones included
RECURSIVE SplitSlash(_)
SplitSlash(path) ==
    IF \A i \in DOMAIN path : path[i] # "/" THEN <<path>>
    ELSE LET k == CHOOSE i \in DOMAIN path :
                      path[i] = "/" /\ \A j \in 1..(i - 1) : path[j] # "/"
         IN  <<SubSeq(path, 1, k - 1)>> \o SplitSlash(SubSeq(path, k + 1, Len(path)))

\* '/'.join(comps)
RECURSIVE JoinSlash(_)
JoinSlash(comps) ==
    IF comps = <<>> THEN <<>>
    ELSE IF Len(comps) = 1 THEN comps[1]
    ELSE comps[1] \o <<"/">> \o JoinSlash(Tail(comps))

\* the loop of normpath over the components: drops '' and '.', resolves '..'
RECURSIVE NormComps(_, _, _)
NormComps(comps, new_comps, initial_slashes) ==
    IF comps = <<>> THEN new_comps
    ELSE LET comp == Head(comps)
             rest == Tail(comps)
         IN  IF comp = <<>> \/ comp = <<".">>
               THEN NormComps(rest, new_comps, initial_slashes)
             ELSE IF \/ comp # <<".", ".">>
                     \/ (initial_slashes = 0 /\ new_comps = <<>>)
                     \/ (new_comps # <<>> /\ new_comps[Len(new_comps)] = <<".", ".">>)
               THEN NormComps(rest, Append(new_comps, comp), initial_slashes)
             ELSE IF new_comps # <<>>
               THEN NormComps(rest, SubSeq(new_comps, 1, Len(new_comps) - 1), initial_slashes)
             ELSE NormComps(rest, new_comps, initial_slashes)

OsPathNormpath(path) ==
    IF path = <<>> THEN <<".">>
    ELSE LET initial_slashes ==
                 IF ~StartsWith(path, <<"/">>) THEN 0
                 ELSE IF StartsWith(path, <<"/", "/">>) /\ ~StartsWith(path, <<"/", "/", "/">>)
                   THEN 2 ELSE 1
             body == JoinSlash(NormComps(SplitSlash(path), <<>>, initial_slashes))
             out == [i \in 1..initial_slashes |-> "/"] \o body
         IN  IF out = <<>> THEN <<".">> ELSE out

\* a variant of the exclusion test: the entries are not joined to dir_path
IsExcludedNoJoin(dir_path, file_path, exclude) ==
    \E i \in DOMAIN exclude :
        \/ OsPathNormpath(exclude[i]) = OsPathNormpath(file_path)
        \/ Contains(OsPathNormpath(exclude[i]), OsPathNormpath(file_path))

\* a variant of the exclusion test: the entries are compared with the file's name
IsExcludedByName(dir_path, file_path, exclude) ==
    \E i \in DOMAIN exclude :
        exclude[i] = SplitSlash(file_path)[Len(SplitSlash(file_path))]

\* the exclusion test of analyze_directory for one file
IsExcluded(dir_path, file_path, exclude) ==
    \E i \in DOMAIN exclude :
        \/ OsPathNormpath(OsPathJoin(dir_path, exclude[i])) = OsPathNormpath(file_path)
        \/ Contains(OsPathNormpath(OsPathJoin(dir_path, exclude[i])), OsPathNormpath(file_path))


(***************************************************************************)
(* The file system the run sees.  fs.files maps the components of a file's *)
(* path (below the working directory) to its text and to what reading it   *)
(* does: "ok"; "missing" (a dangling link: listed by os.walk, no file to   *)
(* os.path.isfile, FileNotFoundError on open); "undecodable" (read raises  *)
(* UnicodeDecodeError); "ioerror" (open raises another OSError).           *)
(* fs.dirs is the set of directories, the working directory <<>> included. *)
(***************************************************************************)
\* the components a relative path names, as the operating system resolves it
PathComps(path) == NormComps(SplitSlash(path), <<>>, 0)

IsRelative(path) == ~StartsWith(path, <<"/">>)

OsPathIsfile(fs, path) ==
    /\ path # <<>>
    /\ IsRelative(path)
    /\ PathComps(path) \in DOMAIN fs.files
    /\ fs.files[PathComps(path)].status # "missing"

\* a variant of the directory test: whatever is not a file is walked
OsPathIsdirAnyPath(fs, path) == TRUE

OsPathIsdir(fs, path) ==
    /\ path # <<>>
    /\ IsRelative(path)
    /\ PathComps(path) \in fs.dirs

\* the entries of one directory, by name
Children(entries, dir) ==
    {e[Len(e)] : e \in {f \in entries : Len(f) = Len(dir) + 1 /\ SubSeq(f, 1, Len(dir)) = dir}}

\* the file names and the subdirectory names os.walk yields for root
FilesOf(fs, root) == Children(DOMAIN fs.files, PathComps(root))

SubdirsOf(fs, root) == Children(fs.dirs, PathComps(root))

\* the orders in which a directory listing can come back
Orderings(S) ==
    {q \in [1..Cardinality(S) -> S] : \A i, j \in DOMAIN q : q[i] = q[j] => i = j}

(***************************************************************************)
(* analyze_file: the two flags, and the error it logs (if any).            *)
(***************************************************************************)
\* what open() and read() do on a path: "ok", or the exception raised
ReadOutcome(fs, file_path) ==
    LET comps == PathComps(file_path)
    IN  IF ~IsRelative(file_path) \/ comps \notin DOMAIN fs.files THEN "FileNotFoundError"
        ELSE CASE fs.files[comps].status = "ok"          -> "ok"
               [] fs.files[comps].status = "missing"     -> "FileNotFoundError"
               [] fs.files[comps].status = "undecodable" -> "UnicodeDecodeError"
               [] fs.files[comps].status = "ioerror"     -> "PermissionError"

\* return False, False  after logging error; raised: the exception left analyze_file
NoMatch(error, raised) ==
    [generation_found |-> FALSE, validation_found |-> FALSE, error |-> error, raised |-> raised]

\* a variant of analyze_file without the second except clause: only
\* FileNotFoundError is caught
analyze_file_one_except(fs, file_path, token_name, form_field) ==
    LET outcome == ReadOutcome(fs, file_path)
        code == fs.files[PathComps(file_path)].code
    IN  IF outcome = "FileNotFoundError" THEN NoMatch("File not found", FALSE)
        ELSE IF outcome # "ok" THEN NoMatch("none", TRUE)
        ELSE [generation_found |-> is_token_generation_present(code, token_name),
              validation_found |-> is_token_validation_present(code, token_name, form_field),
              error |-> "none", raised |-> FALSE]

analyze_file(fs, file_path, token_name, form_field) ==
    LET outcome == ReadOutcome(fs, file_path)
        code == fs.files[PathComps(file_path)].code
    IN  IF outcome = "FileNotFoundError" THEN NoMatch("File not found", FALSE)
        ELSE IF outcome # "ok" THEN NoMatch("Error reading file", FALSE)
        ELSE [generation_found |-> is_token_generation_present(code, token_name),
              validation_found |-> is_token_validation_present(code, token_name, form_field),
              error |-> "none", raised |-> FALSE]

\* a variant of the accumulation: the last file's flag replaces the running one
AccumulateOverwrite(found, flag) == flag

\* generation_found = generation_found or gen  (and the same for validation)
Accumulate(found, flag) == found \/ flag

\* a variant of main on a file: the filters of the directory scan are applied
SingleFileResultFiltered(fs, args) ==
    IF \/ ~EndsWith(args.source_code_path, S_py)
       \/ \E i \in DOMAIN args.exclude :
              Contains(OsPathNormpath(args.exclude[i]), OsPathNormpath(args.source_code_path))
      THEN NoMatch("none", FALSE)
    ELSE analyze_file(fs, args.source_code_path, args.token_name, args.form_field)

\* main on a path that is a file
SingleFileResult(fs, args) ==
    analyze_file(fs, args.source_code_path, args.token_name, args.form_field)

\* a variant of the exit status: a missing pattern fails the run
ExitStatusStrict(generation_found, validation_found) ==
    IF generation_found /\ validation_found THEN 0 ELSE 1

\* the exit status of a run that reaches the end of main
ExitStatusAtEnd(generation_found, validation_found) == 0

\* sys.exit(1)
ExitStatusAbort == 1

ErrorLog(result) == IF result.error = "none" THEN <<>> ELSE <<<<"ERROR", result.error>>>>

(***************************************************************************)
(* The state of one run of main.                                           *)
(***************************************************************************)
VARIABLES
    args,              \* the parsed command line
    fs,                \* the file system (not changed by the run)
    pc,                \* where main is
    exit_code,         \* the process's exit status, once pc = "exited"
    generation_found,  \* the running flags
    validation_found,
    walk_stack,        \* os.walk: the directories still to yield, next first
    cur_root,          \* os.walk: the directory being listed
    cur_files,         \* the files of cur_root the inner loop has not reached
    opened,            \* the paths open() was called on
    analyzed,          \* the paths analyze_directory passed to analyze_file
    file_result,       \* what analyze_file returned for each of them
    skipped,           \* the paths analyze_directory skipped as excluded
    walked,            \* whether os.walk was started
    log                \* the log records, <<level, message>>

vars == <<args, fs, pc, exit_code, generation_found, validation_found, walk_stack,
          cur_root, cur_files, opened, analyzed, file_result, skipped, walked, log>>

VarsOfWalk == <<walk_stack, cur_root, cur_files, analyzed, file_result, skipped, walked>>

\* lines 158-161
MainValidate ==
    /\ pc = "validate"
    /\ IF NamesAccepted(args.token_name, args.form_field)
         THEN /\ pc' = "dispatch"
              /\ UNCHANGED <<exit_code, log>>
         ELSE /\ pc' = "exited"
              /\ exit_code' = ExitStatusAbort
              /\ log' = Append(log, <<"ERROR", "Invalid token_name or form_field">>)
    /\ UNCHANGED <<args, fs, generation_found, validation_found, opened>>
    /\ UNCHANGED VarsOfWalk

\* lines 163-164
MainDispatchFile ==
    /\ pc = "dispatch"
    /\ OsPathIsfile(fs, args.source_code_path)
    /\ LET r == SingleFileResult(fs, args)
       IN  IF r.raised
             THEN \* an exception nobody catches ends the process with status 1
                  /\ pc' = "exited"
                  /\ exit_code' = ExitStatusAbort
                  /\ UNCHANGED <<generation_found, validation_found, log>>
             ELSE /\ generation_found' = r.generation_found
                  /\ validation_found' = r.validation_found
                  /\ log' = log \o ErrorLog(r)
                  /\ pc' = "report_generation"
                  /\ UNCHANGED exit_code
    /\ opened' = opened \cup {args.source_code_path}
    /\ UNCHANGED <<args, fs>>
    /\ UNCHANGED VarsOfWalk

\* lines 165-166, 126-129: analyze_directory is entered and os.walk started
MainDispatchDirectory ==
    /\ pc = "dispatch"
    /\ ~OsPathIsfile(fs, args.source_code_path)
    /\ OsPathIsdir(fs, args.source_code_path)
    /\ generation_found' = FALSE
    /\ validation_found' = FALSE
    /\ walk_stack' = <<args.source_code_path>>
    /\ walked' = TRUE
    /\ pc' = "walk"
    /\ UNCHANGED <<args, fs, exit_code, cur_root, cur_files, opened, analyzed,
                   file_result, skipped, log>>

\* lines 167-169
MainDispatchInvalid ==
    /\ pc = "dispatch"
    /\ ~OsPathIsfile(fs, args.source_code_path)
    /\ ~OsPathIsdir(fs, args.source_code_path)
    /\ log' = Append(log, <<"ERROR", "Invalid source code path">>)
    /\ exit_code' = ExitStatusAbort
    /\ pc' = "exited"
    /\ UNCHANGED <<args, fs, generation_found, validation_found, opened>>
    /\ UNCHANGED VarsOfWalk

\* line 129: os.walk yields the next directory (top-down, depth first)
WalkNextDirectory ==
    /\ pc = "walk"
    /\ cur_files = {}
    /\ walk_stack # <<>>
    /\ LET root == Head(walk_stack)
       IN  /\ cur_root' = root
           /\ cur_files' = FilesOf(fs, root)
           /\ \E order \in Orderings(SubdirsOf(fs, root)) :
                  walk_stack' = [i \in DOMAIN order |-> OsPathJoin(root, order[i])]
                                    \o Tail(walk_stack)
    /\ UNCHANGED <<args, fs, pc, exit_code, generation_found, validation_found,
                   opened, analyzed, file_result, skipped, walked, log>>

\* lines 130-131: a file that does not end in .py
WalkOtherFile ==
    /\ pc = "walk"
    /\ \E file \in cur_files :
           /\ ~EndsWith(file, S_py)
           /\ cur_files' = cur_files \ {file}
    /\ UNCHANGED <<args, fs, pc, exit_code, generation_found, validation_found,
                   walk_stack, cur_root, opened, analyzed, file_result, skipped, walked, log>>

\* lines 131-137: a .py file that the exclusion list covers
WalkExcludedFile ==
    /\ pc = "walk"
    /\ \E file \in cur_files :
           LET file_path == OsPathJoin(cur_root, file)
           IN  /\ EndsWith(file, S_py)
               /\ IsExcluded(args.source_code_path, file_path, args.exclude)
               /\ cur_files' = cur_files \ {file}
               /\ skipped' = skipped \cup {file_path}
               /\ log' = Append(log, <<"INFO", "Skipping excluded file">>)
    /\ UNCHANGED <<args, fs, pc, exit_code, generation_found, validation_found,
                   walk_stack, cur_root, opened, analyzed, file_result, walked>>

\* lines 131-141: a .py file that is analyzed
WalkAnalyzeFile ==
    /\ pc = "walk"
    /\ \E file \in cur_files :
           LET file_path == OsPathJoin(cur_root, file)
               r == analyze_file(fs, file_path, args.token_name, args.form_field)
           IN  /\ EndsWith(file, S_py)
               /\ ~IsExcluded(args.source_code_path, file_path, args.exclude)
               /\ cur_files' = cur_files \ {file}
               /\ opened' = opened \cup {file_path}
               /\ analyzed' = analyzed \cup {file_path}
               /\ file_result' = (file_path :> r) @@ file_result
               /\ IF r.raised
                    THEN \* an exception nobody catches ends the process with status 1
                         /\ pc' = "exited"
                         /\ exit_code' = ExitStatusAbort
                         /\ UNCHANGED <<generation_found, validation_found, log>>
                    ELSE /\ generation_found' = Accumulate(generation_found, r.generation_found)
                         /\ validation_found' = Accumulate(validation_found, r.validation_found)
                         /\ log' = log \o ErrorLog(r)
                         /\ UNCHANGED <<pc, exit_code>>
    /\ UNCHANGED <<args, fs, walk_stack, cur_root, skipped, walked>>

\* line 143: os.walk is exhausted, analyze_directory returns
WalkReturn ==
    /\ pc = "walk"
    /\ cur_files = {}
    /\ walk_stack = <<>>
    /\ pc' = "report_generation"
    /\ UNCHANGED <<args, fs, exit_code, generation_found, validation_found, opened, log>>
    /\ UNCHANGED VarsOfWalk

\* lines 171-174
MainReportGeneration ==
    /\ pc = "report_generation"
    /\ log' = Append(log, IF generation_found
                            THEN <<"INFO", "CSRF token generation logic found.">>
                            ELSE <<"WARNING", "CSRF token generation logic NOT found.">>)
    /\ pc' = "report_validation"
    /\ UNCHANGED <<args, fs, exit_code, generation_found, validation_found, opened>>
    /\ UNCHANGED VarsOfWalk

\* lines 176-179, and the return of main
MainReportValidation ==
    /\ pc = "report_validation"
    /\ log' = Append(log, IF validation_found
                            THEN <<"INFO", "CSRF token validation logic found.">>
                            ELSE <<"WARNING", "CSRF token validation logic NOT found.">>)
    /\ exit_code' = ExitStatusAtEnd(generation_found, validation_found)
    /\ pc' = "exited"
    /\ UNCHANGED <<args, fs, generation_found, validation_found, opened>>
    /\ UNCHANGED VarsOfWalk

Next ==
    \/ MainValidate
    \/ MainDispatchFile
    \/ MainDispatchDirectory
    \/ MainDispatchInvalid
    \/ WalkNextDirectory
    \/ WalkOtherFile
    \/ WalkExcludedFile
    \/ WalkAnalyzeFile
    \/ WalkReturn
    \/ MainReportGeneration
    \/ MainReportValidation

(***************************************************************************)
(* The inputs of the runs that are checked: file texts written from the    *)
(* idioms the patterns are meant for, a small directory tree, command      *)
(* lines.                                                                  *)
(***************************************************************************)
\* how many characters a drawn --token_name / --form_field may have
MaxNameLen == 2

\* how many other lines may precede the idioms in a drawn file text
MaxPad == 1

CustomTokenName == <<"t","k">>

CustomFormField == <<"f","d">>

Line(text) == text \o <<"\n">>

NoiseLine == Line(<<"i","m","p","o","r","t"," ","o","s">>)

S_assign == <<" ","="," ">>

\* the right-hand sides of the generation idioms
GenerationCalls ==
    << <<"g","e","n","e","r","a","t","e","_","t","o","k","e","n","(",")">>,
       <<"s","e","l","f",".","g","e","n","e","r","a","t","e","_","t","o","k","e","n","(",")">>,
       <<"s","e","c","r","e","t","s",".","t","o","k","e","n","_","h","e","x","(","1","6",")">>,
       <<"o","s",".","u","r","a","n","d","o","m","(","2","4",")">>,
       <<"u","u","i","d",".","u","u","i","d","4","(",")">> >>

\* <token> = <call>
GenerationLine(k, token) == Line(token \o S_assign \o GenerationCalls[k])

RequestShapes == {"form[]", "POST[]", "form.get", "POST.get"}

\* the form field read from the request object
RequestAccess(shape, field) ==
    CASE shape = "form[]"   -> S_request \o <<".">> \o S_form \o <<"[","'">> \o field \o <<"'","]">>
      [] shape = "POST[]"   -> S_request \o <<".">> \o S_POST \o <<"[","'">> \o field \o <<"'","]">>
      [] shape = "form.get" -> S_request \o <<".">> \o S_form \o <<".">> \o S_get
                                   \o <<"(","'">> \o field \o <<"'",")">>
      [] shape = "POST.get" -> S_request \o <<".">> \o S_POST \o <<".">> \o S_get
                                   \o <<"(","'">> \o field \o <<"'",")">>

TokenShapes == {"session[]", "variable"}

\* the expected token: session['<token>'] or the variable itself
TokenAccess(shape, token) ==
    IF shape = "session[]" THEN S_session \o <<"[","'">> \o token \o <<"'","]">> ELSE token

\* the validation idioms: which request shape, which token shape, which side first
ValidationShapes ==
    [request : RequestShapes, token : TokenShapes, request_first : BOOLEAN]

\* if <a> != <b>:
ValidationLine(v, token, field) ==
    LET r == RequestAccess(v.request, field)
        t == TokenAccess(v.token, token)
    IN  Line(S_if \o <<" ">> \o (IF v.request_first THEN r ELSE t)
                  \o <<" ">> \o S_ne \o <<" ">> \o (IF v.request_first THEN t ELSE r) \o <<":">>)

\* no validation idiom in the text
NoValidation == [request |-> "none", token |-> "none", request_first |-> FALSE]

\* if request.form['csrf_token'] != session['csrf_token']:
DocumentedExample1 == [request |-> "form[]", token |-> "session[]", request_first |-> TRUE]

\* if request.POST.get('csrf_token') != session['csrf_token']:
DocumentedExample2 == [request |-> "POST.get", token |-> "session[]", request_first |-> TRUE]

\* if session['csrf_token'] != request.form['csrf_token']:
SessionFirst == [request |-> "form[]", token |-> "session[]", request_first |-> FALSE]

\* a file text: pad other lines, then the idioms it is written with
\* (generation: 0 for none, else which call; validation: NoValidation or a shape)
TextOf(w) ==
    LET g == IF w.generation = 0 THEN <<>> ELSE GenerationLine(w.generation, w.token)
        v == IF w.validation = NoValidation THEN <<>> ELSE ValidationLine(w.validation, w.token, w.field)
    IN  [i \in 1..(w.pad * Len(NoiseLine)) |-> NoiseLine[((i - 1) % Len(NoiseLine)) + 1]]
            \o (IF w.validation_first THEN v \o g ELSE g \o v)

Written(generation, validation, pad, validation_first, token, field) ==
    [generation |-> generation, validation |-> validation, pad |-> pad,
     validation_first |-> validation_first, token |-> token, field |-> field]

\* a file: what its text was written with, the text, and what reading it does
File(w, status) == [written |-> w, code |-> TextOf(w), status |-> status]

(***************************************************************************)
(* The directory tree of the scans, below the working directory:           *)
(*     d/u.py  d/tx.py  d/n.txt  d/s/u.py  d/s/t.py     and an empty  e/   *)
(***************************************************************************)
N_d == <<"d">>

N_s == <<"s">>

N_e == <<"e">>

N_u_py == <<"u",".","p","y">>

N_t_py == <<"t",".","p","y">>

N_tx_py == <<"t","x",".","p","y">>

N_n_txt == <<"n",".","t","x","t">>

N_a_py == <<"a",".","p","y">>

F_u == <<N_d, N_u_py>>

F_tx == <<N_d, N_tx_py>>

F_n == <<N_d, N_n_txt>>

F_su == <<N_d, N_s, N_u_py>>

F_st == <<N_d, N_s, N_t_py>>

TreeFiles == {F_u, F_tx, F_n, F_su, F_st}

TreeDirs == {<<>>, <<N_d>>, <<N_d, N_s>>, <<N_e>>}

NoFile == <<>>

\* the tree with the generation idiom in one file, the validation idiom in one
\* file, and one file that cannot be read; d/n.txt always holds both idioms
Tree(gen_in, val_in, bad, bad_status) ==
    [files |-> [f \in TreeFiles |->
                   File(Written(IF f = gen_in \/ f = F_n THEN 4 ELSE 0,
                                IF f = val_in \/ f = F_n THEN SessionFirst ELSE NoValidation,
                                1, FALSE, DefaultTokenName, DefaultFormField),
                        IF f = bad THEN bad_status ELSE "ok")],
     dirs  |-> TreeDirs]

Trees ==
    {Tree(g, v, b[1], b[2]) :
        g \in {NoFile, F_u, F_su},
        v \in {NoFile, F_su, F_st},
        b \in {<<NoFile, "ok">>, <<F_u, "undecodable">>, <<F_su, "missing">>,
               <<F_tx, "ioerror">>}}

\* source_code_path: the directory (two spellings), the working directory,
\* three files (d/s/u.py is a dangling link in some trees), a path that does not
\* exist, an empty directory
SourcePaths ==
    {<<"d">>, <<"d","/">>, <<".">>, JoinSlash(F_u), JoinSlash(F_su), JoinSlash(F_n),
     <<"x">>, <<"e">>}

\* --exclude
ExcludeLists ==
    {<<>>, <<N_u_py>>, <<N_u_py, N_tx_py>>, <<<<"t">>>>, <<N_s>>,
     <<JoinSlash(<<N_s, N_u_py>>)>>, <<JoinSlash(F_u)>>}

\* the characters names are drawn from: a letter, a digit, the underscore,
\* a space, a newline
NameAlphabet == {"a", "7", "_", " ", "\n"}

DrawnNames == UNION {[1..n -> NameAlphabet] : n \in 0..MaxNameLen}

Parse(source_code_path, token_name, form_field, exclude) ==
    [source_code_path |-> source_code_path, token_name |-> token_name,
     form_field |-> form_field, exclude |-> exclude]

\* the state when main starts
Start ==
    /\ pc = "validate"
    /\ exit_code = 0
    /\ generation_found = FALSE
    /\ validation_found = FALSE
    /\ walk_stack = <<>>
    /\ cur_root = <<>>
    /\ cur_files = {}
    /\ opened = {}
    /\ analyzed = {}
    /\ file_result = <<>>
    /\ skipped = {}
    /\ walked = FALSE
    /\ log = <<>>

\* scans of the trees with the default names
InitScan ==
    /\ fs \in Trees
    /\ \E p \in SourcePaths, e \in ExcludeLists :
           args = Parse(p, DefaultTokenName, DefaultFormField, e)
    /\ Start

\* runs with drawn names, one of the two names at a time
InitNames ==
    /\ fs = Tree(F_u, F_st, NoFile, "ok")
    /\ \E p \in {<<"d">>, JoinSlash(F_u), <<"x">>}, e \in {<<>>, <<N_u_py>>},
          n \in DrawnNames, o \in {DefaultTokenName, <<"7", "a">>} :
           \/ args = Parse(p, n, o, e)
           \/ args = Parse(p, o, n, e)
    /\ Start

Init == InitScan \/ InitNames

Spec == Init /\ [][Next]_vars

(***************************************************************************)
(* analyze_file on drawn texts: main on a single file a.py.                *)
(***************************************************************************)
\* the names on the command line and the names the text is written with
NameCases ==
    { [token_name |-> DefaultTokenName, form_field |-> DefaultFormField,
       token |-> DefaultTokenName, field |-> DefaultFormField],
      [token_name |-> CustomTokenName, form_field |-> CustomFormField,
       token |-> CustomTokenName, field |-> CustomFormField],
      [token_name |-> CustomTokenName, form_field |-> DefaultFormField,
       token |-> CustomTokenName, field |-> CustomFormField],
      [token_name |-> DefaultTokenName, form_field |-> DefaultFormField,
       token |-> CustomTokenName, field |-> CustomFormField] }

InitAnalyze ==
    /\ \E c \in NameCases, g \in 0..Len(GenerationCalls),
          v \in ValidationShapes \cup {NoValidation}, pad \in 0..MaxPad, vf \in BOOLEAN :
           /\ vf => (g # 0 /\ v # NoValidation)
           /\ fs = [files |-> (<<N_a_py>> :> File(Written(g, v, pad, vf, c.token, c.field), "ok")),
                    dirs  |-> {<<>>}]
           /\ args = Parse(N_a_py, c.token_name, c.form_field, <<>>)
    /\ Start

NextAnalyze ==
    \/ MainValidate
    \/ MainDispatchFile
    \/ MainReportGeneration
    \/ MainReportValidation

SpecAnalyze == InitAnalyze /\ [][NextAnalyze]_vars

(***************************************************************************)
(* Vocabulary of the properties, stated on the inputs themselves.          *)
(***************************************************************************)
\* first character a letter or underscore, then letters, digits, underscores
IsIdentifier(name) ==
    /\ Len(name) >= 1
    /\ name[1] \in IdentStart
    /\ \A i \in 2..Len(name) : name[i] \in IdentChar

NamesAreIdentifiers == IsIdentifier(args.token_name) /\ IsIdentifier(args.form_field)

\* what the source path names in the file system
SourceComps == PathComps(args.source_code_path)

SourceIsFile == SourceComps \in DOMAIN fs.files /\ fs.files[SourceComps].status # "missing"

SourceIsDirectory == SourceComps \in fs.dirs

SourceIsNothing == ~SourceIsFile /\ ~SourceIsDirectory

\* main has left the analysis behind (it reports, or has ended)
Reporting == pc \in {"report_generation", "report_validation", "exited"}

\* sub occurs in s at some offset
Occurs(sub, s) ==
    \E k \in 0..(Len(s) - Len(sub)) : \A j \in 1..Len(sub) : s[k + j] = sub[j]

\* the path under which the walk from the source path reaches a file
RECURSIVE JoinAll(_, _)
JoinAll(base, comps) ==
    IF comps = <<>> THEN base ELSE JoinAll(OsPathJoin(base, Head(comps)), Tail(comps))

WalkPath(f) ==
    JoinAll(args.source_code_path, SubSeq(f, Len(SourceComps) + 1, Len(f)))

\* the files below the source directory
FilesBelow ==
    {f \in DOMAIN fs.files :
        Len(f) > Len(SourceComps) /\ SubSeq(f, 1, Len(SourceComps)) = SourceComps}

\* the paths of the .py files anywhere below the source directory
Candidates == {WalkPath(f) : f \in {g \in FilesBelow : EndsWith(g[Len(g)], S_py)}}

FileAt(path) == fs.files[PathComps(path)]

Readable(path) == FileAt(path).status = "ok"

\* the text at path was written with an idiom for the names on the command line
WrittenWithGeneration(path) ==
    FileAt(path).written.generation # 0 /\ FileAt(path).written.token = args.token_name

WrittenWithValidation(path) ==
    /\ FileAt(path).written.validation # NoValidation
    /\ FileAt(path).written.token = args.token_name
    /\ FileAt(path).written.field = args.form_field

ReportLines ==
    { <<"INFO", "CSRF token generation logic found.">>,
      <<"WARNING", "CSRF token generation logic NOT found.">>,
      <<"INFO", "CSRF token validation logic found.">>,
      <<"WARNING", "CSRF token validation logic NOT found.">> }

NoReportLine == \A i \in DOMAIN log : log[i] \notin ReportLines

(***************************************************************************)
(* C1 (as claimed): when --token_name or --form_field is not an            *)
(* identifier, main ends with exit code 1 and no file is opened and no     *)
(* directory walked; the run never gets past the check of the names.       *)
(***************************************************************************)
C1_NonIdentifierAborts ==
    ~NamesAreIdentifiers =>
        /\ opened = {}
        /\ ~walked
        /\ pc \in {"validate", "exited"}
        /\ pc = "exited" => exit_code = 1

\* the normalized path holds the normalized join of the scanned directory with
\* some exclusion entry
CoveredByJoinedEntry(path) ==
    \E i \in DOMAIN args.exclude :
        Occurs(OsPathNormpath(OsPathJoin(args.source_code_path, args.exclude[i])),
               OsPathNormpath(path))

\* the normalized path holds some normalized exclusion entry
ContainsEntry(path) ==
    \E i \in DOMAIN args.exclude :
        Occurs(OsPathNormpath(args.exclude[i]), OsPathNormpath(path))

(***************************************************************************)
(* C2 (amended): a .py file the walk reaches is skipped if and only if its *)
(* normalized path equals or contains the normalized join of the scanned   *)
(* directory with some exclusion entry; when the walk is over every        *)
(* .py file below the directory has been skipped or analyzed.              *)
(***************************************************************************)
C2_SkippedIffJoinedEntryInPath ==
    /\ \A path \in analyzed \cup skipped : path \in skipped <=> CoveredByJoinedEntry(path)
    /\ analyzed \cup skipped \subseteq Candidates
    /\ (walked /\ Reporting) => analyzed \cup skipped = Candidates

\* C2 (as claimed): a .py file the walk reaches is skipped if and only if its
\* normalized path equals or contains some normalized exclusion entry.
C2_SkippedIffEntryInPath ==
    \A path \in analyzed \cup skipped : path \in skipped <=> ContainsEntry(path)

\* C2 witness: the scan of d with the entry "t" has skipped d/tx.py (its path
\* contains d/t) and analyzed d/s/t.py (its path contains t, not d/t).
C2_Witness ==
    /\ args.source_code_path = <<"d">>
    /\ args.exclude = <<<<"t">>>>
    /\ JoinSlash(F_tx) \in skipped
    /\ JoinSlash(F_st) \in analyzed

(***************************************************************************)
(* C3 (as claimed): a file text with an  if ... != ...  comparison of the  *)
(* configured token (session['<token>'] or the variable) with the          *)
(* configured form field, read by request.form[..], request.POST[..],      *)
(* request.form.get(..) or request.POST.get(..), in either order, gets     *)
(* validation = true, with or without a generation idiom in the text.      *)
(***************************************************************************)
C3_ValidationIdiomFound ==
    (Reporting /\ WrittenWithValidation(args.source_code_path)) => validation_found

(***************************************************************************)
(* C4: during the scan of a directory each running flag is the OR of the   *)
(* flags analyze_file returned for the files analyzed so far; at the end   *)
(* the files analyzed are the .py files below the directory that are not   *)
(* excluded, and with the default names the result is (some readable       *)
(* analyzed file was written with the generation idiom, some with the      *)
(* validation idiom): (false, false) when there is none.                   *)
(***************************************************************************)
C4_AggregateIsOrOfFileFlags ==
    walked =>
        /\ generation_found = \E path \in analyzed : file_result[path].generation_found
        /\ validation_found = \E path \in analyzed : file_result[path].validation_found
        /\ Reporting =>
               /\ analyzed = {path \in Candidates :
                                 ~IsExcluded(args.source_code_path, path, args.exclude)}
               /\ (args.token_name = DefaultTokenName /\ args.form_field = DefaultFormField) =>
                      /\ generation_found =
                             \E path \in analyzed : Readable(path) /\ WrittenWithGeneration(path)
                      /\ validation_found =
                             \E path \in analyzed : Readable(path) /\ WrittenWithValidation(path)

\* C4 witness: a finished scan in which one file gave (true, false), another
\* (false, true), and the result is (true, true).
C4_Witness ==
    /\ walked
    /\ pc = "exited"
    /\ generation_found
    /\ validation_found
    /\ \E p, q \in analyzed :
           /\ file_result[p].generation_found /\ ~file_result[p].validation_found
           /\ ~file_result[q].generation_found /\ file_result[q].validation_found

(***************************************************************************)
(* C5: in a directory scan a file that cannot be read (missing,            *)
(* undecodable, other I/O error) gives (false, false) and no exception     *)
(* leaves analyze_file; the flags are those of the readable files analyzed *)
(* so far; the walk goes on to every other file and the run ends with      *)
(* exit code 0.                                                            *)
(***************************************************************************)
C5_ReadFailureIsNotFatal ==
    walked =>
        /\ \A path \in analyzed :
               ~Readable(path) =>
                   /\ ~file_result[path].generation_found
                   /\ ~file_result[path].validation_found
                   /\ ~file_result[path].raised
        /\ generation_found =
               \E path \in analyzed : Readable(path) /\ file_result[path].generation_found
        /\ validation_found =
               \E path \in analyzed : Readable(path) /\ file_result[path].validation_found
        /\ pc = "exited" =>
               /\ exit_code = 0
               /\ analyzed \cup skipped = Candidates

\* C5 witness: a finished scan that analyzed a file it could not read and kept
\* the generation flag another file gave.
C5_Witness ==
    /\ walked
    /\ pc = "exited"
    /\ exit_code = 0
    /\ generation_found
    /\ \E path \in analyzed : ~Readable(path)

(***************************************************************************)
(* C6: with identifier names and a source path that is an existing file or *)
(* directory a run that ends has exit code 0, whatever the two flags are,  *)
(* and its last two log records report the two flags: INFO when found,     *)
(* WARNING when not.                                                       *)
(***************************************************************************)
C6_ExistingPathExitsZero ==
    (pc = "exited" /\ NamesAreIdentifiers /\ (SourceIsFile \/ SourceIsDirectory)) =>
        /\ exit_code = 0
        /\ Len(log) >= 2
        /\ log[Len(log) - 1] =
               IF generation_found THEN <<"INFO", "CSRF token generation logic found.">>
               ELSE <<"WARNING", "CSRF token generation logic NOT found.">>
        /\ log[Len(log)] =
               IF validation_found THEN <<"INFO", "CSRF token validation logic found.">>
               ELSE <<"WARNING", "CSRF token validation logic NOT found.">>

\* C6 witness: a run on an existing path that found neither pattern has ended
\* with exit code 0.
C6_Witness ==
    /\ pc = "exited"
    /\ NamesAreIdentifiers
    /\ SourceIsFile \/ SourceIsDirectory
    /\ ~generation_found
    /\ ~validation_found
    /\ exit_code = 0

(***************************************************************************)
(* C7: with identifier names and a source path that is neither an existing *)
(* file nor an existing directory, no file is opened or analyzed, nothing  *)
(* is walked, no found / NOT found line is logged, and the run ends with   *)
(* exit code 1.                                                            *)
(***************************************************************************)
C7_InvalidPathAborts ==
    (NamesAreIdentifiers /\ SourceIsNothing) =>
        /\ opened = {}
        /\ analyzed = {}
        /\ ~walked
        /\ NoReportLine
        /\ pc \in {"validate", "dispatch", "exited"}
        /\ pc = "exited" => exit_code = 1

\* C7 witness: a run on a path that names nothing has ended with exit code 1.
C7_Witness ==
    /\ NamesAreIdentifiers
    /\ SourceIsNothing
    /\ pc = "exited"
    /\ exit_code = 1

(***************************************************************************)
(* C8: scans in which exactly one .py file below the directory was written *)
(* with an idiom.                                                          *)
(***************************************************************************)
WrittenWithIdiom(path) ==
    FileAt(path).written.generation # 0 \/ FileAt(path).written.validation # NoValidation

OnlyIdiomFile(path) ==
    /\ path \in Candidates
    /\ WrittenWithIdiom(path)
    /\ \A other \in Candidates \ {path} : ~WrittenWithIdiom(other)

BaseName(path) == SplitSlash(path)[Len(SplitSlash(path))]

\* the file is named in --exclude by its file name
NamedByFileName(path) == \E i \in DOMAIN args.exclude : args.exclude[i] = BaseName(path)

\* the file is named in --exclude by its path from the scanned directory
NamedFromScannedDirectory(path) ==
    \E i \in DOMAIN args.exclude :
        OsPathNormpath(OsPathJoin(args.source_code_path, args.exclude[i])) = OsPathNormpath(path)

\* C8 (as claimed): when the only .py file written with an idiom is named in
\* --exclude by its file name, wherever it is below the directory, the finished
\* scan's result is (false, false).
C8_ExcludedByFileName ==
    (walked /\ pc = "exited") =>
        \A path \in Candidates :
            (OnlyIdiomFile(path) /\ NamedByFileName(path)) =>
                (~generation_found /\ ~validation_found)

\* C8 (amended): when the only .py file written with an idiom is named in
\* --exclude by its path from the scanned directory, the scan skips it and the
\* finished scan's result is (false, false).
C8_ExcludedByPathFromDirectory ==
    (walked /\ pc = "exited") =>
        \A path \in Candidates :
            (OnlyIdiomFile(path) /\ NamedFromScannedDirectory(path)) =>
                (path \in skipped /\ ~generation_found /\ ~validation_found)

\* C8 witness: the scan of d has skipped d/s/u.py, the only file with idioms,
\* named s/u.py in --exclude.
C8_Witness ==
    /\ walked
    /\ pc = "exited"
    /\ args.source_code_path = <<"d">>
    /\ OnlyIdiomFile(JoinSlash(F_su))
    /\ Readable(JoinSlash(F_su))
    /\ NamedFromScannedDirectory(JoinSlash(F_su))
    /\ JoinSlash(F_su) \in skipped
    /\ ~generation_found

(***************************************************************************)
(* C9: a readable file written with a generation idiom for the configured  *)
(* token name gets generation = true, whatever --form_field is and whether *)
(* or not the text holds a validation idiom too; without a validation      *)
(* idiom the result is (true, false).                                      *)
(***************************************************************************)
C9_GenerationOnly ==
    (Reporting /\ Readable(args.source_code_path)
               /\ WrittenWithGeneration(args.source_code_path)) =>
        /\ generation_found
        /\ FileAt(args.source_code_path).written.validation = NoValidation => ~validation_found

\* C9 witness: a text with other lines before  tk = uuid.uuid4()  and no
\* validation idiom, analyzed with a --form_field the text does not mention.
C9_Witness ==
    /\ pc = "exited"
    /\ FileAt(args.source_code_path).written =
           Written(5, NoValidation, 1, FALSE, CustomTokenName, CustomFormField)
    /\ args.token_name = CustomTokenName
    /\ args.form_field = DefaultFormField
    /\ generation_found
    /\ ~validation_found

(***************************************************************************)
(* C10: when the source path is an existing file (and the names are        *)
(* identifiers) the result is that of                                      *)
(* analyze_file on it: it is the one path opened, nothing is walked or     *)
(* skipped, whatever --exclude holds and whatever the file's extension,    *)
(* and the run ends with exit code 0.                                      *)
(***************************************************************************)
C10_SingleFileIgnoresFilters ==
    (NamesAreIdentifiers /\ SourceIsFile /\ Reporting) =>
        /\ generation_found =
               analyze_file(fs, args.source_code_path, args.token_name,
                            args.form_field).generation_found
        /\ validation_found =
               analyze_file(fs, args.source_code_path, args.token_name,
                            args.form_field).validation_found
        /\ opened = {args.source_code_path}
        /\ ~walked
        /\ skipped = {}
        /\ pc = "exited" => exit_code = 0

\* C10 witness: d/u.py given as the source path with --exclude u.py was read and
\* its generation idiom found.
C10_Witness ==
    /\ pc = "exited"
    /\ args.source_code_path = JoinSlash(F_u)
    /\ args.exclude = <<N_u_py>>
    /\ opened = {JoinSlash(F_u)}
    /\ generation_found
    /\ exit_code = 0

=============================================================================
